---------------------------- MODULE Spec2Model ----------------------------
(***************************************************************************)
(* Commit synthesis and anonymization engine of git-activity-tracer:       *)
(*   src/src/lib/git/anonymizer.ts         anonymizeMessage / Repository   *)
(*   src/src/lib/git/repositoryManager.ts  RepositoryManager               *)
(*   src/src/formatters/git.ts             GitFormatter.format             *)
(*                                                                         *)
(* Strings are sequences of one-character strings, so that the prefix      *)
(* pattern of anonymizeMessage is matched character by character; Str      *)
(* turns such a sequence into a TLC string for comparison with literals.   *)
(***************************************************************************)
EXTENDS Integers, Sequences, FiniteSets, TLC

\* JavaScript's undefined for an optional string (no string is this sequence).
UNDEF == <<"<undefined>">>

\* An optional flag is "true", "false" or JavaScript's undefined.
NOFLAG == "<undefined>"
Flags == {NOFLAG, "true", "false"}

(***************************************************************************)
(* Characters and strings                                                  *)
(***************************************************************************)
LowerLetters ==
  <<"a","b","c","d","e","f","g","h","i","j","k","l","m",
    "n","o","p","q","r","s","t","u","v","w","x","y","z">>

UpperLetters ==
  <<"A","B","C","D","E","F","G","H","I","J","K","L","M",
    "N","O","P","Q","R","S","T","U","V","W","X","Y","Z">>

Digits == <<"0","1","2","3","4","5","6","7","8","9">>

Punctuation ==
  <<"_","-","(",")",":"," ","\t","\n","!","/","[","]","{","}","<",">","@",".">>

\* The characters the model's strings are written in; Ord is a character's code.
Alphabet == LowerLetters \o UpperLetters \o Digits \o Punctuation

Range(s) == { s[i] : i \in 1..Len(s) }

CodeOf == [c \in Range(Alphabet) |-> CHOOSE i \in 1..Len(Alphabet) : Alphabet[i] = c]
Ord(c) == CodeOf[c]

\* String.prototype.toLowerCase on one character (the /i flag of the pattern).
LowerOf ==
  [c \in Range(Alphabet) |->
     IF c \in Range(UpperLetters)
       THEN LowerLetters[CHOOSE i \in 1..26 : UpperLetters[i] = c]
       ELSE c]
ToLower(c) == LowerOf[c]

\* \w of a JavaScript pattern without the u flag: [A-Za-z0-9_].
WordChars ==
  Range(LowerLetters) \cup Range(UpperLetters) \cup Range(Digits) \cup {"_"}
IsWordChar(c) == c \in WordChars

\* \s restricted to the white space of the alphabet.
IsSpace(c) == c \in {" ", "\t", "\n"}

RECURSIVE Str(_)
Str(s) == IF s = <<>> THEN "" ELSE Head(s) \o Str(Tail(s))

\* String.prototype.substring(from) and substring(0, to), 0-based as in the code.
SubstringFrom(s, from) == SubSeq(s, from + 1, Len(s))
SubstringTo(s, to) == SubSeq(s, 1, IF to < Len(s) THEN to ELSE Len(s))

\* JavaScript truthiness of an optional string: undefined and "" are falsy.
Truthy(s) == s # UNDEF /\ s # <<>>

(***************************************************************************)
(* anonymizer.ts                                                           *)
(***************************************************************************)
HexDigits == <<"0","1","2","3","4","5","6","7","8","9","a","b","c","d","e","f">>

\* One word of the stand-in digest: 7 hexadecimal digits (28 bits).
DigestWordModulus == 16 * 16 * 16 * 16 * 16 * 16 * 16

RECURSIVE HexOf(_, _)
HexOf(n, width) ==
  IF width = 0 THEN <<>>
  ELSE HexOf(n \div 16, width - 1) \o <<HexDigits[(n % 16) + 1]>>

RECURSIVE Mix(_, _, _)
Mix(s, h, mult) ==
  IF s = <<>> THEN h
  ELSE Mix(Tail(s), (h * mult + Ord(Head(s))) % DigestWordModulus, mult)

(* createHash('sha256').update(input).digest('hex'): the digest of the     *)
(* crypto library is not computed; it is stood in for by a fixed function  *)
(* of the input alone into lowercase hexadecimal digits (two 28-bit        *)
(* polynomial words). Only determinism and the output alphabet are used.   *)
DigestHex(input) ==
  HexOf(Mix(input, 11, 7), 7) \o HexOf(Mix(input, 5, 3), 7)

\* createConsistentHash(input, length = 8)
DefaultHashLength == 8

createConsistentHash(input) == SubstringTo(DigestHex(input), DefaultHashLength)

sEmpty == <<"e","m","p","t","y">>
sUnknown == <<"u","n","k","n","o","w","n">>
sHash == <<"h","a","s","h","_">>
sRepo == <<"r","e","p","o","_">>

\* The alternatives of conventionalPrefixPattern, in the order written.
PrefixTypes ==
  << <<"f","e","a","t">>, <<"f","i","x">>, <<"d","o","c","s">>,
     <<"s","t","y","l","e">>, <<"r","e","f","a","c","t","o","r">>,
     <<"p","e","r","f">>, <<"t","e","s","t">>, <<"c","h","o","r","e">>,
     <<"b","u","i","l","d">>, <<"c","i">>, <<"r","e","v","e","r","t">> >>

\* msg continues at 0-based offset pos with kw, letters compared under /i.
StartsWithNoCase(msg, pos, kw) ==
  /\ Len(msg) >= pos + Len(kw)
  /\ \A i \in 1..Len(kw) : ToLower(msg[pos + i]) = ToLower(kw[i])

\* Length of the longest run of [\w-] characters, of \s characters, from pos.
RECURSIVE WordRun(_, _)
WordRun(msg, pos) ==
  IF pos < Len(msg) /\ (IsWordChar(msg[pos + 1]) \/ msg[pos + 1] = "-")
    THEN 1 + WordRun(msg, pos + 1) ELSE 0

RECURSIVE SpaceRun(_, _)
SpaceRun(msg, pos) ==
  IF pos < Len(msg) /\ IsSpace(msg[pos + 1]) THEN 1 + SpaceRun(msg, pos + 1) ELSE 0

(* (\([\w-]+\))? at offset pos: the offset after the scope when a scope    *)
(* matches there, else pos (the group is optional; when it matches, the    *)
(* alternative without it cannot, since ":" would have to be "(").         *)
AfterScope(msg, pos) ==
  IF pos < Len(msg) /\ msg[pos + 1] = "("
    THEN LET n == WordRun(msg, pos + 1)
         IN IF n >= 1 /\ pos + 1 + n < Len(msg) /\ msg[pos + 2 + n] = ")"
              THEN pos + 2 + n ELSE pos
    ELSE pos

\* A variant of the pattern without the /i flag.
StartsWithCase(msg, pos, kw) ==
  /\ Len(msg) >= pos + Len(kw)
  /\ \A i \in 1..Len(kw) : msg[pos + i] = kw[i]

MatchWithTypeMutCase(msg, kw) ==
  IF ~StartsWithCase(msg, 0, kw) THEN -1
  ELSE LET p == AfterScope(msg, Len(kw))
       IN IF p < Len(msg) /\ msg[p + 1] = ":"
            THEN p + 1 + SpaceRun(msg, p + 1)
            ELSE -1

\* A variant of the pattern that makes the colon optional.
MatchWithTypeMutNoColon(msg, kw) ==
  IF ~StartsWithNoCase(msg, 0, kw) THEN -1
  ELSE LET p == AfterScope(msg, Len(kw))
       IN IF p < Len(msg) /\ msg[p + 1] = ":"
            THEN p + 1 + SpaceRun(msg, p + 1)
            ELSE p + SpaceRun(msg, p)

\* Length of the match of ^(type)(\([\w-]+\))?:\s* for one type, or -1.
MatchWithType(msg, kw) ==
  IF ~StartsWithNoCase(msg, 0, kw) THEN -1
  ELSE LET p == AfterScope(msg, Len(kw))
       IN IF p < Len(msg) /\ msg[p + 1] = ":"
            THEN p + 1 + SpaceRun(msg, p + 1)
            ELSE -1

\* message.match(conventionalPrefixPattern): match[0].length, or -1 for null.
RECURSIVE MatchFrom(_, _)
MatchFrom(msg, k) ==
  IF k > Len(PrefixTypes) THEN -1
  ELSE LET m == MatchWithType(msg, PrefixTypes[k])
       IN IF m >= 0 THEN m ELSE MatchFrom(msg, k + 1)

MatchPrefix(msg) == MatchFrom(msg, 1)

\* A variant that takes only undefined, not the empty string, as missing.
anonymizeMessageMutUndefinedOnly(message) ==
  IF message = UNDEF THEN sHash \o createConsistentHash(sEmpty)
  ELSE sHash \o createConsistentHash(message)

anonymizeMessage(message) ==
  IF ~Truthy(message) THEN sHash \o createConsistentHash(sEmpty)
  ELSE LET n == MatchPrefix(message)
       IN IF n >= 0
            THEN LET prefix == SubstringTo(message, n)
                     content == SubstringFrom(message, Len(prefix))
                 IN prefix \o sHash \o createConsistentHash(content)
            ELSE sHash \o createConsistentHash(message)

anonymizeRepository(repository) ==
  IF ~Truthy(repository) THEN sRepo \o createConsistentHash(sUnknown)
  ELSE sRepo \o createConsistentHash(repository)

\* anonymizeText(text, type), type one of commit, pr, review.
TextKinds ==
  [commit |-> <<"c","o","m","m","i","t">>, pr |-> <<"p","r">>,
   review |-> <<"r","e","v","i","e","w">>]

\* A variant that delegates a commit to anonymizeMessage before it looks
\* whether there is a text.
anonymizeTextMutDelegateFirst(text, type) ==
  LET t == TextKinds[type]
  IN IF type = "commit" THEN anonymizeMessage(text)
     ELSE IF ~Truthy(text)
       THEN t \o <<"_">> \o sHash
              \o createConsistentHash(t \o <<"_">> \o sEmpty)
     ELSE t \o <<"_">> \o sHash \o createConsistentHash(text)

anonymizeText(text, type) ==
  LET t == TextKinds[type]
  IN IF ~Truthy(text)
       THEN t \o <<"_">> \o sHash
              \o createConsistentHash(t \o <<"_">> \o sEmpty)
     ELSE IF type = "commit" THEN anonymizeMessage(text)
     ELSE t \o <<"_">> \o sHash \o createConsistentHash(text)

(***************************************************************************)
(* formatters/git.ts: buildCommitMessage                                   *)
(***************************************************************************)
sSep == <<":", " ">>

\* Array.prototype.join(separator)
RECURSIVE Join(_, _)
Join(parts, sep) ==
  IF parts = <<>> THEN <<>>
  ELSE IF Len(parts) = 1 THEN parts[1]
  ELSE parts[1] \o sep \o Join(Tail(parts), sep)

\* options.anonymize ?? false
OrFalse(flag) == IF flag = NOFLAG THEN FALSE ELSE flag = "true"

\* One conditional parts.push(...): the part when the field is truthy.
PartIf(field, part) == IF Truthy(field) THEN <<part>> ELSE <<>>

\* A variant that puts the project id before the target.
buildCommitMessageMutOrder(contribution, anonymize) ==
  Join(   << <<"[">> \o contribution.type \o <<"]">> >>
       \o PartIf(contribution.repository,
                 IF anonymize THEN anonymizeRepository(contribution.repository)
                              ELSE contribution.repository)
       \o PartIf(contribution.projectId, <<"{">> \o contribution.projectId \o <<"}">>)
       \o PartIf(contribution.target, <<"(">> \o contribution.target \o <<")">>)
       \o PartIf(contribution.text,
                 IF anonymize THEN anonymizeMessage(contribution.text)
                              ELSE contribution.text),
       sSep)

\* A variant that anonymizes the text only.
buildCommitMessageMutRepo(contribution, anonymize) ==
  Join(   << <<"[">> \o contribution.type \o <<"]">> >>
       \o PartIf(contribution.repository, contribution.repository)
       \o PartIf(contribution.target, <<"(">> \o contribution.target \o <<")">>)
       \o PartIf(contribution.projectId, <<"{">> \o contribution.projectId \o <<"}">>)
       \o PartIf(contribution.text,
                 IF anonymize THEN anonymizeMessage(contribution.text)
                              ELSE contribution.text),
       sSep)

buildCommitMessage(contribution, anonymize) ==
  Join(   << <<"[">> \o contribution.type \o <<"]">> >>
       \o PartIf(contribution.repository,
                 IF anonymize THEN anonymizeRepository(contribution.repository)
                              ELSE contribution.repository)
       \o PartIf(contribution.target, <<"(">> \o contribution.target \o <<")">>)
       \o PartIf(contribution.projectId, <<"{">> \o contribution.projectId \o <<"}">>)
       \o PartIf(contribution.text,
                 IF anonymize THEN anonymizeMessage(contribution.text)
                              ELSE contribution.text),
       sSep)

(***************************************************************************)
(* Inputs of the pure functions                                            *)
(***************************************************************************)
\* A message is assembled from five pieces, so that the pieces a result
\* must keep or hash are known without running the pattern.
KeywordPool ==
  [k \in 1..Len(PrefixTypes) |-> [s |-> PrefixTypes[k], known |-> TRUE]]
  \o << [s |-> <<"F","E","A","T">>, known |-> TRUE],
        [s |-> <<"F","i","x">>, known |-> TRUE],
        [s |-> <<"c","I">>, known |-> TRUE],
        [s |-> <<"f","e","a","t","u","r","e">>, known |-> FALSE],
        [s |-> <<"f","i","x","e","s">>, known |-> FALSE],
        [s |-> <<"w","i","p">>, known |-> FALSE],
        [s |-> <<>>, known |-> FALSE] >>

ScopePool ==
  << [s |-> <<>>, valid |-> TRUE],
     [s |-> <<"(","a","u","t","h",")">>, valid |-> TRUE],
     [s |-> <<"(","a","-","B","_","1",")">>, valid |-> TRUE],
     [s |-> <<"(",")">>, valid |-> FALSE],
     [s |-> <<"(","a"," ","b",")">>, valid |-> FALSE],
     [s |-> <<"(","x">>, valid |-> FALSE] >>

SeparatorPool ==
  << [s |-> <<":">>, colon |-> TRUE],
     [s |-> <<"!",":">>, colon |-> FALSE],
     [s |-> <<" ",":">>, colon |-> FALSE],
     [s |-> <<>>, colon |-> FALSE] >>

SpacePool == << <<>>, <<" ">>, <<" "," ">>, <<"\t","\n">> >>

\* Remainders: none starts with white space.
RestPool ==
  << <<>>, <<"a","d","d"," ","x">>, <<"f","i","x",":"," ","y">> >>

\* Every keyword in the plain shapes, and every shape for "feat", "fix", the
\* keywords in other letter cases and the words that are no keyword.
MessageInputs ==
  { m \in [kw : 1..Len(KeywordPool), scope : 1..Len(ScopePool),
           sep : 1..Len(SeparatorPool), ws : 1..Len(SpacePool),
           rest : 1..Len(RestPool)] :
      \/ m.kw <= 2 \/ m.kw > Len(PrefixTypes)
      \/ (m.scope <= 2 /\ m.sep <= 2 /\ m.ws <= 2 /\ m.rest = 2) }

Assemble(m) ==
  KeywordPool[m.kw].s \o ScopePool[m.scope].s \o SeparatorPool[m.sep].s
    \o SpacePool[m.ws] \o RestPool[m.rest]

sOwnerRepo == <<"o","w","n","e","r","/","r","e","p","o">>
sOtherRepo == <<"v","u","e","j","s","/","v","u","e">>
sMain == <<"m","a","i","n">>
sProject == <<"P","-","1">>
sFixBug == <<"F","i","x"," ","b","u","g">>
sFeatAdd == <<"f","e","a","t",":"," ","a","d","d"," ","f","e","a","t","u","r","e">>
sCommit == <<"c","o","m","m","i","t">>
sPr == <<"p","r">>
sReview == <<"r","e","v","i","e","w">>

ContributionInputs ==
  [type : {sCommit, sPr},
   repository : {UNDEF, <<>>, sOwnerRepo, sOtherRepo},
   target : {UNDEF, sMain},
   projectId : {UNDEF, sProject},
   text : {UNDEF, <<>>, sFixBug, sFeatAdd}]

\* The second contribution of a pair: another type and text, the same or
\* another repository.
SecondInputs ==
  { [type |-> sReview, repository |-> r, target |-> UNDEF, projectId |-> UNDEF,
     text |-> sFixBug] : r \in {sOwnerRepo, sOtherRepo} }

(***************************************************************************)
(* Time: instants are hours since 2026-01-01T00:00:00Z                     *)
(***************************************************************************)
\* A timestamp string: "utc" ends in Z (2026-01-01T23:00:00Z), "date" is a
\* date alone (2026-01-02, v the hour of its UTC midnight), "local" is a
\* date and time without a zone; tz is the local zone's offset from UTC.
TimestampKinds == {"utc", "date", "local"}

\* new Date(timestamp).getTime(): a date alone is UTC, a zoneless time local.
NewDate(ts, tz) == IF ts.kind = "local" THEN ts.v - tz ELSE ts.v

\* dayjs(timestamp).valueOf(): a string not ending in Z is parsed field by
\* field as local time, a date alone included; one ending in Z as new Date.
DayjsValueOf(ts, tz) == IF ts.kind = "utc" THEN ts.v ELSE ts.v - tz

DigitStr == <<"0","1","2","3","4","5","6","7","8","9">>
TwoDigits(n) == DigitStr[(n \div 10) + 1] \o DigitStr[(n % 10) + 1]

\* Date.prototype.toISOString(): always UTC, always with milliseconds.
ToISOString(d) ==
  "2026-01-" \o TwoDigits((d \div 24) + 1) \o "T" \o TwoDigits(d % 24)
    \o ":00:00.000Z"

\* new Date of an unparseable value: toISOString throws a RangeError.
InvalidDate == -1

(***************************************************************************)
(* formatters/git.ts: the sort of format                                   *)
(***************************************************************************)
\* (a, b) => dayjs(a.timestamp).valueOf() - dayjs(b.timestamp).valueOf()
CompareMutDescending(a, b, tz) == DayjsValueOf(b.timestamp, tz) - DayjsValueOf(a.timestamp, tz)

Compare(a, b, tz) == DayjsValueOf(a.timestamp, tz) - DayjsValueOf(b.timestamp, tz)

\* A variant that puts an element before those it compares equal to.
RECURSIVE InsertSortedMutBeforeEqual(_, _, _, _)
InsertSortedMutBeforeEqual(order, k, cs, tz) ==
  IF order = <<>> THEN <<k>>
  ELSE IF Compare(cs[Head(order)], cs[k], tz) >= 0
         THEN <<k>> \o order
         ELSE <<Head(order)>> \o InsertSortedMutBeforeEqual(Tail(order), k, cs, tz)

(* Array.prototype.sort with a consistent comparator: the stable sort.     *)
(* InsertSorted puts index k after every index whose contribution does not *)
(* compare greater; Sorted folds it over the indices 1..n in input order.  *)
RECURSIVE InsertSorted(_, _, _, _)
InsertSorted(order, k, cs, tz) ==
  IF order = <<>> THEN <<k>>
  ELSE IF Compare(cs[Head(order)], cs[k], tz) > 0
         THEN <<k>> \o order
         ELSE <<Head(order)>> \o InsertSorted(Tail(order), k, cs, tz)

RECURSIVE SortFrom(_, _, _, _)
SortFrom(order, k, cs, tz) ==
  IF k > Len(cs) THEN order
  ELSE SortFrom(InsertSorted(order, k, cs, tz), k + 1, cs, tz)

\* [...contributions].sort(...): the indices of the input in sorted order.
Sorted(cs, tz) == SortFrom(<<>>, 1, cs, tz)

(***************************************************************************)
(* Bounds                                                                  *)
(***************************************************************************)
\* Longest contribution batch handed to format.
MaxBatch == 3
\* Tool calls a behaviour may spend on its operations (see Cost).
MaxWork == 6
\* Commits another actor adds to the repository.
MaxExternal == 1
\* Tool calls that fail though the repository gives no reason to.
MaxFaults == 1
\* Applications of the pure functions to one input.
MaxPureCalls == 2
\* Callers that call createCommit side by side.
MaxCallers == 2

(***************************************************************************)
(* State                                                                   *)
(***************************************************************************)
VARIABLES
  tz,            \* offset of the local time zone from UTC, in hours
  env,           \* process.env: variable name -> value or UNSET
  dirExists,     \* the repository directory exists
  gitDir,        \* its .git directory exists (the repository is Present)
  gpgsign,       \* commit.gpgsign of the repository: "false" or UNSET
  history,       \* the repository's commits, oldest first
  extCount,      \* commits added by another actor
  contributions, \* the caller's batch (argument of format)
  anonymize,     \* options.anonymize
  op,            \* the operation in progress: none, format, init, commit, count
  pc,            \* where the operation awaits
  ops,           \* operations started
  work,          \* tool calls budgeted to the operations started
  authorName,    \* format: const authorName
  authorEmail,   \* format: const authorEmail
  isNew,         \* format: const isNew; initializeRepository: value returned
  initialCount,  \* format: const initialCount
  sorted,        \* format: const sorted, as indices into contributions
  idx,           \* format: position of the loop in sorted
  commitCount,   \* format: let commitCount
  warnings,      \* console.warn calls of format: <<type, timestamp>>
  progress,      \* console.log progress lines of format
  call,          \* createCommit in progress: options, originalEnv, outcome
  result,        \* what the last operation returned or threw
  attempts,      \* createCommit calls of the current format run, in order
  pre,           \* process.env at the entry of the createCommit in progress
  snap,          \* environment and repository at the start of the operation
  runs,          \* format runs that returned a summary
  faults,        \* tool calls made to fail so far
  pin,           \* pure functions: the input
  pout,          \* pure functions: the outputs computed
  calls          \* createCommit calls made side by side: caller -> call

vars ==
  <<tz, env, dirExists, gitDir, gpgsign, history, extCount, contributions,
    anonymize, op, pc, ops, work, authorName, authorEmail, isNew, initialCount,
    sorted, idx, commitCount, warnings, progress, call, result, attempts,
    pre, snap, runs, faults, pin, pout, calls>>

repoVars == <<dirExists, gitDir, gpgsign, history>>
inputVars == <<tz, contributions, anonymize, work>>
formatVars ==
  <<authorName, authorEmail, isNew, initialCount, sorted, idx, commitCount,
    warnings, progress, attempts>>
pureVars == <<pin, pout>>

UNSET == "<unset>"

\* The four ambient variables createCommit writes.
AmbientNames ==
  {"GIT_AUTHOR_DATE", "GIT_COMMITTER_DATE", "GIT_COMMITTER_NAME", "GIT_COMMITTER_EMAIL"}

EnvNames == AmbientNames \cup {"GIT_AUTHOR_NAME", "GIT_AUTHOR_EMAIL"}

defaultAuthorName == "Git Activity Tracer"
defaultAuthorEmail == "noreply@example.com"

\* process.env.X || fallback: unset and "" both give the fallback.
OrDefault(value, fallback) == IF value = UNSET \/ value = "" THEN fallback ELSE value

NoCall == [active |-> FALSE]
NoResult == [kind |-> "none"]

(***************************************************************************)
(* lib/git/repositoryManager.ts                                            *)
(***************************************************************************)
\* createCommit: const originalEnv = { ... } (the four ambient variables).
SaveEnvironment(e) == [n \in AmbientNames |-> e[n]]

\* A variant that leaves the committer date to the tool's clock.
SetEnvironmentMutDate(e, dateString, name, email) ==
  [e EXCEPT !["GIT_AUTHOR_DATE"] = dateString,
            !["GIT_COMMITTER_NAME"] = name,
            !["GIT_COMMITTER_EMAIL"] = email]

\* createCommit: the four assignments to process.env inside try.
SetEnvironment(e, dateString, name, email) ==
  [e EXCEPT !["GIT_AUTHOR_DATE"] = dateString,
            !["GIT_COMMITTER_DATE"] = dateString,
            !["GIT_COMMITTER_NAME"] = name,
            !["GIT_COMMITTER_EMAIL"] = email]

\* A variant that assigns every saved value back, undefined included
\* (process.env turns undefined into the string "undefined").
restoreEnvironmentVariablesMutAssign(e, original) ==
  [n \in DOMAIN e |->
     IF n \in DOMAIN original
       THEN IF original[n] # UNSET THEN original[n] ELSE "undefined"
       ELSE e[n]]

\* restoreEnvironmentVariables(original): assign what was set, delete the rest.
restoreEnvironmentVariables(e, original) ==
  [n \in DOMAIN e |->
     IF n \in DOMAIN original
       THEN IF original[n] # UNSET THEN original[n] ELSE UNSET
       ELSE e[n]]

\* An identity as the tool writes it: Name <email>.
Ident(name, email) == name \o " <" \o email \o ">"

\* What the tool falls back to for a variable that is unset when it runs.
FromConfig(value) == IF value = UNSET THEN "<tool default>" ELSE value

(* git commit --allow-empty --message m --author a, run with process.env   *)
(* as it is when the tool runs: the author is the --author argument, the   *)
(* author date, committer date and committer identity are read from the    *)
(* environment. The core never stages anything, so the commit is empty.    *)
CommitObject(e, c) ==
  [message |-> c.message,
   author |-> c.authorString,
   committer |-> Ident(FromConfig(e["GIT_COMMITTER_NAME"]),
                       FromConfig(e["GIT_COMMITTER_EMAIL"])),
   authorDate |-> FromConfig(e["GIT_AUTHOR_DATE"]),
   committerDate |-> FromConfig(e["GIT_COMMITTER_DATE"]),
   empty |-> TRUE,
   by |-> "core",
   request |-> [message |-> c.message, authorName |-> c.authorName,
                authorEmail |-> c.authorEmail, date |-> c.date, k |-> c.k,
                op |-> ops]]

ExternalCommitObject ==
  [message |-> "external", author |-> "someone", committer |-> "someone",
   authorDate |-> "now", committerDate |-> "now", empty |-> FALSE,
   by |-> "other", request |-> [k |-> 0, op |-> 0]]

\* A variant that reports a failed query as -1.
getCommitCountMutSentinel(present, hist, ok) ==
  IF present /\ hist # <<>> /\ ok THEN Len(hist) ELSE 0 - 1

\* getCommitCount: log.total, or 0 when git.log() throws; the log of a
\* repository without commits, or of no repository, fails.
getCommitCount(present, hist, ok) ==
  IF present /\ hist # <<>> /\ ok THEN Len(hist) ELSE 0

(* The outcomes of a tool call: it fails when the repository cannot serve  *)
(* it (works = FALSE), and otherwise succeeds or, within the budget of     *)
(* failures, fails.                                                        *)
Outcomes(works) ==
  IF ~works THEN {FALSE}
  ELSE IF faults < MaxFaults THEN {TRUE, FALSE} ELSE {TRUE}

Faults(works, ok) == IF works /\ ~ok THEN faults + 1 ELSE faults

\* The synchronous head of createCommit, up to await this.git.raw(...).
CreateCommitBegin(options, k) ==
  /\ pre' = env
  /\ IF options.date = InvalidDate
       THEN \* date.toISOString() throws before anything is saved or set
            /\ call' = [active |-> TRUE, outcome |-> "RangeError", k |-> k,
                        message |-> options.message]
            /\ env' = env
            /\ pc' = "commit_ret"
       ELSE LET dateString == ToISOString(options.date)
            IN /\ call' = [active |-> TRUE, outcome |-> "pending", k |-> k,
                           message |-> options.message,
                           authorName |-> options.authorName,
                           authorEmail |-> options.authorEmail,
                           date |-> options.date,
                           authorString |-> Ident(options.authorName, options.authorEmail),
                           dateString |-> dateString,
                           originalEnv |-> SaveEnvironment(env)]
               /\ env' = SetEnvironment(env, dateString, options.authorName,
                                        options.authorEmail)
               /\ pc' = "commit_tool"

\* The log of attempts with the outcome of the last one filled in (the log
\* is empty during a direct call).
Settled(log, outcome) ==
  IF log = <<>> THEN log ELSE [log EXCEPT ![Len(log)].outcome = outcome]

\* A variant in which the tool amends the last commit when there is one.
ToolCommitMutAmend ==
  /\ pc = "commit_tool"
  /\ \E ok \in Outcomes(gitDir) :
       /\ IF ok
            THEN /\ history' = IF history = <<>>
                                 THEN <<CommitObject(env, call)>>
                                 ELSE [history EXCEPT ![Len(history)] =
                                         CommitObject(env, call)]
                 /\ call' = [call EXCEPT !.outcome = "ok"]
            ELSE /\ history' = history
                 /\ call' = [call EXCEPT !.outcome = "error"]
       /\ attempts' = Settled(attempts, IF ok THEN "ok" ELSE "error")
       /\ faults' = Faults(gitDir, ok)
  /\ pc' = "commit_finally"
  /\ UNCHANGED <<env, dirExists, gitDir, gpgsign, extCount, inputVars, op, ops,
                 authorName, authorEmail, isNew, initialCount, sorted, idx,
                 commitCount, warnings, progress, result, pre, snap, runs, pureVars, calls>>

\* The tool runs the commit: it appends one commit, or fails and adds none.
ToolCommit ==
  /\ pc = "commit_tool"
  /\ \E ok \in Outcomes(gitDir) :
       /\ IF ok
            THEN /\ history' = Append(history, CommitObject(env, call))
                 /\ call' = [call EXCEPT !.outcome = "ok"]
            ELSE /\ history' = history
                 /\ call' = [call EXCEPT !.outcome = "error"]
       /\ attempts' = Settled(attempts, IF ok THEN "ok" ELSE "error")
       /\ faults' = Faults(gitDir, ok)
  /\ pc' = "commit_finally"
  /\ UNCHANGED <<env, dirExists, gitDir, gpgsign, extCount, inputVars, op, ops,
                 authorName, authorEmail, isNew, initialCount, sorted, idx,
                 commitCount, warnings, progress, result, pre, snap, runs, pureVars, calls>>

\* A variant whose call settles with the variables still holding the
\* commit's values.
CreateCommitFinallyMutNoRestore ==
  /\ pc = "commit_finally"
  /\ env' = env
  /\ pc' = "commit_ret"
  /\ UNCHANGED <<repoVars, extCount, inputVars, op, ops, formatVars, call,
                 result, pre, snap, runs, faults, pureVars, calls>>

\* finally { this.restoreEnvironmentVariables(originalEnv) }
CreateCommitFinally ==
  /\ pc = "commit_finally"
  /\ env' = restoreEnvironmentVariables(env, call.originalEnv)
  /\ pc' = "commit_ret"
  /\ UNCHANGED <<repoVars, extCount, inputVars, op, ops, formatVars, call,
                 result, pre, snap, runs, faults, pureVars, calls>>

(***************************************************************************)
(* formatters/git.ts: format                                               *)
(***************************************************************************)
\* Progress is logged every 100th commit.
ProgressEvery == 100

Throw(error) == [kind |-> "throw", error |-> error]
Return(value) == [kind |-> "return", value |-> value]

\* console.warn(`Warning: Failed to create commit for ${type} at ${timestamp}:`)
WarningMutNoTimestamp(contribution) == <<contribution.type>>

Warning(contribution) == <<contribution.type, contribution.timestamp>>

\* One pass of the loop body up to await repoManager.createCommit(...).
BeginIteration(order, i) ==
  LET k == order[i]
      contribution == contributions[k]
      message == buildCommitMessage(contribution, OrFalse(anonymize))
      date == NewDate(contribution.timestamp, tz)
  IN /\ idx' = i
     /\ attempts' = Append(attempts, [k |-> k, outcome |-> "pending"])
     /\ CreateCommitBegin([message |-> Str(message), authorName |-> authorName,
                           authorEmail |-> authorEmail, date |-> date], k)

\* A variant that sorts the caller's array in place.
SortCopyMutInPlace ==
  /\ contributions' = [i \in 1..Len(contributions) |->
                         contributions[Sorted(contributions, tz)[i]]]
  /\ sorted' = [i \in 1..Len(contributions) |-> i]

\* const sorted = [...contributions].sort(...): the copy is sorted, the
\* caller's array is left as it is.
SortCopy ==
  /\ contributions' = contributions
  /\ sorted' = Sorted(contributions, tz)

\* From const initialCount to the first createCommit: baseline, sort, loop.
AfterBaseline(count) ==
  /\ initialCount' = count
  /\ SortCopy
  /\ BeginIteration(Sorted(contributions, tz), 1)

\* A variant that reports the loop's own counter as the new commits.
SummaryMutCounter(totalCommits) ==
  Return([content |-> "Git export completed successfully",
          totalCommits |-> totalCommits,
          newCommits |-> commitCount,
          exported |-> Len(contributions),
          author |-> Ident(authorName, authorEmail),
          anonymization |-> (anonymize = "true")])

\* A variant that reports the total as the new commits.
SummaryMutNoBaseline(totalCommits) ==
  Return([content |-> "Git export completed successfully",
          totalCommits |-> totalCommits,
          newCommits |-> totalCommits,
          exported |-> Len(contributions),
          author |-> Ident(authorName, authorEmail),
          anonymization |-> (anonymize = "true")])

\* The result of format after the loop.
Summary(totalCommits) ==
  Return([content |-> "Git export completed successfully",
          totalCommits |-> totalCommits,
          newCommits |-> totalCommits - initialCount,
          exported |-> Len(contributions),
          author |-> Ident(authorName, authorEmail),
          anonymization |-> (anonymize = "true")])

Snapshot ==
  [env |-> env, dirExists |-> dirExists, gitDir |-> gitDir, gpgsign |-> gpgsign,
   history |-> history, faults |-> faults, extCount |-> extCount]

Idle == pc \in {"idle", "done"}

\* The budget an operation takes: the probe and one commit per contribution
\* for format, two tool calls for a direct call.
Cost(name) ==
  IF name = "format" /\ Len(contributions) > 1 THEN 1 + Len(contributions) ELSE 2

\* format(contributions, options) is called: await isGitAvailable().
StartFormat ==
  /\ Idle /\ work + Cost("format") <= MaxWork
  /\ op' = "format" /\ pc' = "probe" /\ ops' = ops + 1
  /\ work' = work + Cost("format")
  /\ snap' = Snapshot
  /\ authorName' = UNSET /\ authorEmail' = UNSET /\ isNew' = FALSE
  /\ initialCount' = 0 /\ sorted' = <<>> /\ idx' = 0 /\ commitCount' = 0
  /\ warnings' = <<>> /\ progress' = 0 /\ attempts' = <<>>
  /\ call' = NoCall /\ result' = NoResult
  /\ UNCHANGED <<env, repoVars, extCount, tz, contributions, anonymize, pre, runs,
                 faults, pureVars, calls>>

\* A variant that initializes without looking for the .git directory.
OpenRepositoryMutReinit ==
  /\ dirExists' = TRUE
  /\ pc' = "git_init" /\ isNew' = isNew

\* The constructor of RepositoryManager and the synchronous head of
\* initializeRepository: existsSync(join(repositoryPath, '.git')).
OpenRepository ==
  /\ dirExists' = TRUE
  /\ IF gitDir THEN pc' = "init_ret" /\ isNew' = FALSE
               ELSE pc' = "git_init" /\ isNew' = isNew

\* if (!gitAvailable) throw new Error(...), and variants of the two early
\* exits that construct the RepositoryManager first.
ToolUnavailableMutOpen ==
  /\ result' = Throw("Git is not installed or not available in PATH")
  /\ pc' = "done"
  /\ dirExists' = TRUE

ToolUnavailable ==
  /\ result' = Throw("Git is not installed or not available in PATH")
  /\ pc' = "done"
  /\ dirExists' = dirExists

EmptyInputMutOpen ==
  /\ result' = Return([content |-> "No contributions to export"])
  /\ pc' = "done"
  /\ dirExists' = TRUE

\* if (contributions.length === 0) return { content: 'No contributions ...' }
EmptyInput ==
  /\ result' = Return([content |-> "No contributions to export"])
  /\ pc' = "done"
  /\ dirExists' = dirExists

\* isGitAvailable() settles; format runs on to its next await.
ProbeDone ==
  /\ pc = "probe"
  /\ \/ /\ faults < MaxFaults
        /\ ToolUnavailable
        /\ faults' = faults + 1
        /\ UNCHANGED <<isNew, authorName, authorEmail>>
     \/ /\ contributions = <<>>
        /\ EmptyInput
        /\ UNCHANGED <<isNew, authorName, authorEmail, faults>>
     \/ /\ contributions # <<>>
        /\ authorName' = OrDefault(env["GIT_AUTHOR_NAME"], defaultAuthorName)
        /\ authorEmail' = OrDefault(env["GIT_AUTHOR_EMAIL"], defaultAuthorEmail)
        /\ OpenRepository
        /\ UNCHANGED <<result, faults>>
  /\ UNCHANGED <<env, gitDir, gpgsign, history, extCount, inputVars, op, ops,
                 initialCount, sorted, idx, commitCount, warnings, progress,
                 attempts, call, pre, snap, runs, pureVars, calls>>

\* A variant that swallows a failure of git init and goes on.
GitInitMutSwallow ==
  /\ pc = "git_init"
  /\ \/ /\ gitDir' = TRUE /\ pc' = "git_config"
        /\ UNCHANGED <<result, faults>>
     \/ /\ faults < MaxFaults
        /\ pc' = "git_config"
        /\ faults' = faults + 1
        /\ UNCHANGED <<gitDir, result>>
  /\ UNCHANGED <<env, dirExists, gpgsign, history, extCount, inputVars, op, ops,
                 formatVars, call, pre, snap, runs, pureVars, calls>>

\* await this.git.init()
GitInit ==
  /\ pc = "git_init"
  /\ \/ /\ gitDir' = TRUE /\ pc' = "git_config"
        /\ UNCHANGED <<result, faults>>
     \/ /\ faults < MaxFaults
        /\ result' = Throw("git init failed") /\ pc' = "done"
        /\ faults' = faults + 1
        /\ UNCHANGED gitDir
  /\ UNCHANGED <<env, dirExists, gpgsign, history, extCount, inputVars, op, ops,
                 formatVars, call, pre, snap, runs, pureVars, calls>>

\* await this.git.addConfig('commit.gpgsign', 'false'); return true
GitConfig ==
  /\ pc = "git_config"
  /\ \/ /\ gpgsign' = "false" /\ isNew' = TRUE /\ pc' = "init_ret"
        /\ UNCHANGED <<result, faults>>
     \/ /\ faults < MaxFaults
        /\ result' = Throw("git config failed") /\ pc' = "done"
        /\ faults' = faults + 1
        /\ UNCHANGED <<gpgsign, isNew>>
  /\ UNCHANGED <<env, dirExists, gitDir, history, extCount, inputVars, op, ops,
                 authorName, authorEmail, initialCount, sorted, idx, commitCount,
                 warnings, progress, attempts, call, pre, snap, runs, pureVars, calls>>

\* initializeRepository returns to its caller.
InitReturn ==
  /\ pc = "init_ret"
  /\ \/ /\ op = "init"
        /\ result' = Return(isNew) /\ pc' = "done"
        /\ UNCHANGED <<env, contributions, initialCount, sorted, idx, attempts,
                       call, pre>>
     \/ \* isNew ? 0 : ...
        /\ op = "format" /\ isNew
        /\ AfterBaseline(0)
        /\ UNCHANGED result
     \/ \* ... : await repoManager.getCommitCount()
        /\ op = "format" /\ ~isNew
        /\ pc' = "log_initial"
        /\ UNCHANGED <<env, contributions, initialCount, sorted, idx, attempts,
                       call, pre, result>>
  /\ UNCHANGED <<repoVars, extCount, tz, anonymize, work, op, ops, authorName,
                 authorEmail, isNew, commitCount, warnings, progress, snap, runs,
                 faults, pureVars, calls>>

\* git.log() can succeed only in a repository that has commits.
LogWorks == gitDir /\ history # <<>>

\* The baseline getCommitCount() of format settles.
LogInitial ==
  /\ pc = "log_initial"
  /\ \E ok \in Outcomes(LogWorks) :
       /\ AfterBaseline(getCommitCount(gitDir, history, ok))
       /\ faults' = Faults(LogWorks, ok)
  /\ UNCHANGED <<repoVars, extCount, tz, anonymize, work, op, ops, authorName,
                 authorEmail, isNew, commitCount, warnings, progress, result, snap,
                 runs, pureVars, calls>>

\* A variant that leaves the loop at the first failed commit.
CommitReturnMutStopOnFailure ==
  /\ pc = "commit_ret"
  /\ \/ /\ op = "commit"
        /\ result' = IF call.outcome = "ok" THEN Return("void") ELSE Throw(call.outcome)
        /\ pc' = "done"
        /\ UNCHANGED <<env, formatVars, call, pre>>
     \/ /\ op = "format"
        /\ IF call.outcome = "ok"
             THEN /\ commitCount' = commitCount + 1
                  /\ progress' = progress
                  /\ warnings' = warnings
             ELSE /\ warnings' = Append(warnings, Warning(contributions[call.k]))
                  /\ UNCHANGED <<commitCount, progress>>
        /\ IF idx < Len(sorted) /\ call.outcome = "ok"
             THEN BeginIteration(sorted, idx + 1)
             ELSE /\ pc' = "log_final"
                  /\ UNCHANGED <<env, idx, attempts, call, pre>>
        /\ UNCHANGED <<result, authorName, authorEmail, isNew, initialCount, sorted>>
  /\ UNCHANGED <<repoVars, extCount, inputVars, op, ops, snap, runs, faults, pureVars, calls>>

\* createCommit settles and its caller runs on.
CommitReturn ==
  /\ pc = "commit_ret"
  /\ \/ /\ op = "commit"
        /\ result' = IF call.outcome = "ok" THEN Return("void") ELSE Throw(call.outcome)
        /\ pc' = "done"
        /\ UNCHANGED <<env, formatVars, call, pre>>
     \/ /\ op = "format"
        /\ IF call.outcome = "ok"
             THEN /\ commitCount' = commitCount + 1
                  /\ progress' = IF (commitCount + 1) % ProgressEvery = 0
                                   THEN progress + 1 ELSE progress
                  /\ warnings' = warnings
             ELSE /\ warnings' = Append(warnings, Warning(contributions[call.k]))
                  /\ UNCHANGED <<commitCount, progress>>
        /\ IF idx < Len(sorted)
             THEN BeginIteration(sorted, idx + 1)
             ELSE /\ pc' = "log_final"
                  /\ UNCHANGED <<env, idx, attempts, call, pre>>
        /\ UNCHANGED <<result, authorName, authorEmail, isNew, initialCount, sorted>>
  /\ UNCHANGED <<repoVars, extCount, inputVars, op, ops, snap, runs, faults, pureVars, calls>>

\* The final getCommitCount() settles and format returns its summary.
LogFinal ==
  /\ pc = "log_final"
  /\ \E ok \in Outcomes(LogWorks) :
       LET total == getCommitCount(gitDir, history, ok)
       IN /\ result' = Summary(total)
          /\ runs' = Append(runs, [op |-> ops, summary |-> Summary(total).value,
                                   before |-> Len(snap.history),
                                   after |-> Len(history),
                                   succeeded |-> commitCount])
          /\ faults' = Faults(LogWorks, ok)
  /\ pc' = "done"
  /\ UNCHANGED <<env, repoVars, extCount, inputVars, op, ops, formatVars, call,
                 pre, snap, pureVars, calls>>

(***************************************************************************)
(* Direct calls of RepositoryManager, and the other actor                  *)
(***************************************************************************)
\* CommitOptions of a direct createCommit call.
DirectOptions ==
  { [message |-> "direct", authorName |-> "Bob", authorEmail |-> "bob@example.com",
     date |-> d] : d \in {30, InvalidDate} }

StartDirect(name) ==
  /\ Idle /\ work + Cost(name) <= MaxWork
  /\ op' = name /\ ops' = ops + 1
  /\ work' = work + Cost(name)
  /\ snap' = Snapshot
  /\ result' = NoResult
  /\ UNCHANGED <<gitDir, gpgsign, history, extCount, tz, contributions, anonymize, authorName,
                 authorEmail, initialCount, sorted, idx, commitCount, warnings,
                 progress, attempts, runs, faults, pureVars, calls>>

\* new RepositoryManager(path).initializeRepository()
StartInit ==
  /\ StartDirect("init")
  /\ OpenRepository
  /\ call' = NoCall
  /\ UNCHANGED <<env, pre>>

\* new RepositoryManager(path).createCommit(options)
StartCommit ==
  /\ StartDirect("commit")
  /\ dirExists' = TRUE
  /\ \E options \in DirectOptions : CreateCommitBegin(options, 0)
  /\ UNCHANGED isNew

\* new RepositoryManager(path).getCommitCount()
StartCount ==
  /\ StartDirect("count")
  /\ dirExists' = TRUE
  /\ pc' = "log_direct"
  /\ call' = NoCall
  /\ UNCHANGED <<env, pre, isNew>>

LogDirect ==
  /\ pc = "log_direct"
  /\ \E ok \in Outcomes(LogWorks) :
       /\ result' = Return(getCommitCount(gitDir, history, ok))
       /\ faults' = Faults(LogWorks, ok)
  /\ pc' = "done"
  /\ UNCHANGED <<env, repoVars, extCount, inputVars, op, ops, formatVars, call,
                 pre, snap, runs, pureVars, calls>>

\* Another actor commits to the repository.
ExternalCommit ==
  /\ gitDir /\ extCount < MaxExternal
  /\ history' = Append(history, ExternalCommitObject)
  /\ extCount' = extCount + 1
  /\ UNCHANGED <<env, dirExists, gitDir, gpgsign, inputVars, op, pc, ops,
                 formatVars, call, result, pre, snap, runs, faults, pureVars, calls>>

(***************************************************************************)
(* Initial states                                                          *)
(***************************************************************************)
TimeZones == {0, 2}

Ts(kind, v) == [kind |-> kind, v |-> v]

\* The contributions batches are drawn from. 23 is 2026-01-01T23:00:00Z, 24
\* the date 2026-01-02, 1 is 2026-01-01T01:00:00Z (twice: equal timestamps).
ContributionPool ==
  << [type |-> sCommit, timestamp |-> Ts("utc", 23), repository |-> sOwnerRepo,
      target |-> UNDEF, projectId |-> UNDEF, text |-> sFeatAdd],
     [type |-> sPr, timestamp |-> Ts("utc", 1), repository |-> sOwnerRepo,
      target |-> sMain, projectId |-> UNDEF, text |-> sFixBug],
     [type |-> sReview, timestamp |-> Ts("date", 24), repository |-> UNDEF,
      target |-> UNDEF, projectId |-> sProject, text |-> UNDEF],
     [type |-> sCommit, timestamp |-> Ts("utc", 1), repository |-> sOtherRepo,
      target |-> UNDEF, projectId |-> UNDEF, text |-> <<>>] >>

RECURSIVE SeqsUpTo(_, _)
SeqsUpTo(S, n) ==
  IF n = 0 THEN { <<>> }
  ELSE LET shorter == SeqsUpTo(S, n - 1)
       IN shorter \cup { Append(q, x) : q \in shorter, x \in S }

\* Batches: sequences of distinct pool entries, in any order.
Batches ==
  { [i \in 1..Len(q) |-> ContributionPool[q[i]]] :
      q \in { r \in SeqsUpTo(1..Len(ContributionPool), MaxBatch) :
                \A i, j \in 1..Len(r) : i # j => r[i] # r[j] } }

\* process.env at the start: nothing set; or some variables set, one of them
\* to the empty string, and the others unset.
EnvPresets ==
  { [n \in EnvNames |-> UNSET],
    [n \in EnvNames |->
       CASE n = "GIT_AUTHOR_DATE" -> UNSET
         [] n = "GIT_COMMITTER_DATE" -> "2002-02-02T00:00:00Z"
         [] n = "GIT_COMMITTER_NAME" -> ""
         [] n = "GIT_COMMITTER_EMAIL" -> "carol@example.com"
         [] n = "GIT_AUTHOR_NAME" -> "Alice"
         [] n = "GIT_AUTHOR_EMAIL" -> ""] }

\* Nothing on disk, or a repository made by someone else.
RepoPresets ==
  { [dirExists |-> FALSE, gitDir |-> FALSE, gpgsign |-> UNSET, history |-> <<>>],
    [dirExists |-> TRUE, gitDir |-> TRUE, gpgsign |-> UNSET,
     history |-> <<ExternalCommitObject>>] }

InitIdle ==
  /\ op = "none" /\ pc = "idle" /\ ops = 0 /\ work = 0
  /\ authorName = UNSET /\ authorEmail = UNSET /\ isNew = FALSE
  /\ initialCount = 0 /\ sorted = <<>> /\ idx = 0 /\ commitCount = 0
  /\ warnings = <<>> /\ progress = 0 /\ attempts = <<>>
  /\ call = NoCall /\ result = NoResult
  /\ extCount = 0 /\ runs = <<>> /\ faults = 0
  /\ calls = <<>>

\* The zone matters only to a timestamp that does not end in Z.
ZonesFor(batch) ==
  IF \E i \in 1..Len(batch) : batch[i].timestamp.kind # "utc"
    THEN TimeZones ELSE {0}

Init ==
  /\ contributions \in Batches
  /\ tz \in ZonesFor(contributions)
  /\ env \in EnvPresets
  /\ \E r \in RepoPresets :
       /\ dirExists = r.dirExists /\ gitDir = r.gitDir
       /\ gpgsign = r.gpgsign /\ history = r.history
  /\ anonymize \in {NOFLAG, "true"}
  /\ InitIdle
  /\ pre = env
  /\ snap = Snapshot
  /\ pin = [kind |-> "none"] /\ pout = <<>>

Next ==
  \/ StartFormat \/ ProbeDone \/ GitInit \/ GitConfig \/ InitReturn
  \/ LogInitial \/ ToolCommit \/ CreateCommitFinally \/ CommitReturn
  \/ LogFinal \/ StartInit \/ StartCommit \/ StartCount \/ LogDirect

\* The program alone: one caller, one operation at a time.
Spec == Init /\ [][Next]_vars

\* The program with another actor committing to the same repository.
NextShared == Next \/ ExternalCommit

\* The batches in one input order, one zone and one environment: what the
\* other actor changes does not depend on them.
InitShared ==
  /\ Init
  /\ \A i, j \in 1..Len(contributions) :
       i < j => \E a, b \in 1..Len(ContributionPool) :
                  /\ a < b
                  /\ contributions[i] = ContributionPool[a]
                  /\ contributions[j] = ContributionPool[b]
  /\ tz = 0
  /\ env = [n \in EnvNames |-> UNSET]
  /\ anonymize = NOFLAG

SpecShared == InitShared /\ [][NextShared]_vars

(***************************************************************************)
(* createCommit called side by side on one RepositoryManager               *)
(***************************************************************************)
Callers == 1..MaxCallers

\* CommitOptions of the calls: a caller asks for its own date and identity.
OverlapOptions ==
  { [message |-> "first", authorName |-> "Bob", authorEmail |-> "bob@example.com",
     date |-> 30],
    [message |-> "second", authorName |-> "Dan", authorEmail |-> "dan@example.com",
     date |-> 31],
    [message |-> "third", authorName |-> "Dan", authorEmail |-> "dan@example.com",
     date |-> InvalidDate] }

\* The calls that have started and not yet settled.
InFlight == { c \in DOMAIN calls : calls[c].pc # "done" }

overlapFixed ==
  <<gitDir, gpgsign, extCount, inputVars, op, pc, ops, formatVars, call,
    result, pre, snap, runs, pin, pout>>

\* The synchronous head of createCommit, up to await this.git.raw(...):
\* it runs to the await without another call's code in between.
OverlapBegin(c) ==
  /\ c \notin DOMAIN calls
  /\ dirExists' = TRUE
  /\ \E options \in OverlapOptions :
       IF options.date = InvalidDate
         THEN \* date.toISOString() throws before anything is saved or set
              /\ calls' = calls @@ (c :> [pc |-> "done", outcome |-> "RangeError",
                                          k |-> c, beside |-> InFlight])
              /\ env' = env
         ELSE LET dateString == ToISOString(options.date)
              IN /\ calls' = calls @@
                      (c :> [pc |-> "queued", outcome |-> "pending", k |-> c,
                             seq |-> Cardinality(DOMAIN calls) + 1,
                             beside |-> InFlight,
                             message |-> options.message,
                             authorName |-> options.authorName,
                             authorEmail |-> options.authorEmail,
                             date |-> options.date,
                             authorString |-> Ident(options.authorName,
                                                    options.authorEmail),
                             dateString |-> dateString,
                             originalEnv |-> SaveEnvironment(env),
                             childEnv |-> <<>>])
                 /\ env' = SetEnvironment(env, dateString, options.authorName,
                                          options.authorEmail)
  /\ UNCHANGED <<history, faults, overlapFixed>>

\* this.git.raw([...]) starts the tool: the child process receives
\* process.env as it is at that moment. The invocations of one manager run
\* one after another, in the order in which they were asked for.
OverlapSpawn(c) ==
  /\ c \in DOMAIN calls /\ calls[c].pc = "queued"
  /\ \A d \in DOMAIN calls \ {c} :
       /\ calls[d].pc # "running"
       /\ calls[d].pc = "queued" => calls[d].seq > calls[c].seq
  /\ calls' = [calls EXCEPT ![c].pc = "running", ![c].childEnv = env]
  /\ UNCHANGED <<env, dirExists, history, faults, overlapFixed>>

\* The tool ends: it has appended one commit, or failed and added none.
OverlapExit(c) ==
  /\ c \in DOMAIN calls /\ calls[c].pc = "running"
  /\ \E ok \in Outcomes(gitDir) :
       /\ history' = IF ok
                       THEN Append(history, CommitObject(calls[c].childEnv, calls[c]))
                       ELSE history
       /\ calls' = [calls EXCEPT ![c].pc = "settled",
                                 ![c].outcome = IF ok THEN "ok" ELSE "error"]
       /\ faults' = Faults(gitDir, ok)
  /\ UNCHANGED <<env, dirExists, overlapFixed>>

\* finally { this.restoreEnvironmentVariables(originalEnv) }
OverlapFinally(c) ==
  /\ c \in DOMAIN calls /\ calls[c].pc = "settled"
  /\ env' = restoreEnvironmentVariables(env, calls[c].originalEnv)
  /\ calls' = [calls EXCEPT ![c].pc = "done"]
  /\ UNCHANGED <<dirExists, history, faults, overlapFixed>>

InitOverlap ==
  /\ contributions = <<>>
  /\ tz = 0
  /\ env \in EnvPresets
  /\ \E r \in RepoPresets :
       /\ dirExists = r.dirExists /\ gitDir = r.gitDir
       /\ gpgsign = r.gpgsign /\ history = r.history
  /\ anonymize = NOFLAG
  /\ InitIdle
  /\ pre = env
  /\ snap = Snapshot
  /\ pin = [kind |-> "none"] /\ pout = <<>>

NextOverlap ==
  \/ \E c \in Callers : OverlapBegin(c)
  \/ \E c \in Callers : OverlapSpawn(c)
  \/ \E c \in Callers : OverlapExit(c)
  \/ \E c \in Callers : OverlapFinally(c)

\* Callers that do not wait for one another's createCommit.
SpecOverlap == InitOverlap /\ [][NextOverlap]_vars

(***************************************************************************)
(* The pure functions applied to inputs drawn from the pools               *)
(***************************************************************************)
PureInputs ==
       { [kind |-> "message", absent |-> FALSE, m |-> m] : m \in MessageInputs }
  \cup { [kind |-> "message", absent |-> TRUE] }
  \cup { [kind |-> "contribution", first |-> c, second |-> d, anonymize |-> a] :
           c \in ContributionInputs, d \in SecondInputs, a \in Flags }

\* The message argument of an input.
MessageOf(in) == IF in.absent THEN UNDEF ELSE Assemble(in.m)

InitPure ==
  /\ pin \in PureInputs
  /\ pout = <<>>
  /\ tz = 0
  /\ env = [n \in EnvNames |-> UNSET]
  /\ dirExists = FALSE /\ gitDir = FALSE /\ gpgsign = UNSET /\ history = <<>>
  /\ contributions = <<>>
  /\ anonymize = NOFLAG
  /\ InitIdle
  /\ pre = env
  /\ snap = Snapshot

machineVars ==
  <<tz, env, dirExists, gitDir, gpgsign, history, extCount, contributions,
    anonymize, op, pc, ops, work, authorName, authorEmail, isNew, initialCount,
    sorted, idx, commitCount, warnings, progress, call, result, attempts,
    pre, snap, runs, faults, calls>>

\* What a function could read besides its arguments: the zone and process.env.
Ambient == <<tz, env>>

Applied(fn, arg, out) ==
  /\ Len(pout) < MaxPureCalls
  /\ pout' = Append(pout, [fn |-> fn, arg |-> arg, out |-> out, at |-> Ambient])
  /\ UNCHANGED <<pin, machineVars>>

\* A variant whose hash is salted with the number of earlier calls.
ApplyAnonymizeMessageMutSalted ==
  /\ pin.kind = "message"
  /\ Applied("anonymizeMessage", <<MessageOf(pin)>>,
             anonymizeMessage(MessageOf(pin) \o <<HexDigits[Len(pout) + 1]>>))

ApplyAnonymizeMessage ==
  /\ pin.kind = "message"
  /\ Applied("anonymizeMessage", <<MessageOf(pin)>>, anonymizeMessage(MessageOf(pin)))

ApplyAnonymizeText ==
  /\ pin.kind = "message"
  /\ \E type \in DOMAIN TextKinds :
       Applied("anonymizeText", <<MessageOf(pin), type>>,
               anonymizeText(MessageOf(pin), type))

ApplyAnonymizeRepository ==
  /\ pin.kind = "contribution"
  /\ Applied("anonymizeRepository", <<pin.first.repository>>,
             anonymizeRepository(pin.first.repository))

\* The message of each contribution of the pair, as the loop of format builds it.
ApplyBuildCommitMessage ==
  /\ pin.kind = "contribution"
  /\ Applied("buildCommitMessage", <<pin.first, pin.second, pin.anonymize>>,
             <<buildCommitMessage(pin.first, OrFalse(pin.anonymize)),
               buildCommitMessage(pin.second, OrFalse(pin.anonymize))>>)

\* Between two calls the process moves to the other zone and environment.
AmbientChange ==
  /\ tz' = CHOOSE z \in TimeZones : z # tz
  /\ env' = CHOOSE e \in EnvPresets : e # env
  /\ UNCHANGED <<dirExists, gitDir, gpgsign, history, extCount, contributions,
                 anonymize, op, pc, ops, work, formatVars, call, result, pre,
                 snap, runs, faults, pureVars, calls>>

NextPure ==
  \/ ApplyAnonymizeMessage \/ ApplyAnonymizeText
  \/ ApplyAnonymizeRepository \/ ApplyBuildCommitMessage

SpecPure == InitPure /\ [][NextPure]_vars

\* The anonymizers called again and again on one input while the zone and
\* the environment change under them.
RepeatInputs ==
  { in \in PureInputs :
      \/ /\ in.kind = "message"
         /\ \/ in.absent
            \/ /\ in.m.kw \in {1, Len(PrefixTypes) + 1, Len(PrefixTypes) + 4,
                                Len(KeywordPool)}
               /\ in.m.scope <= 2 /\ in.m.sep \in {1, 4} /\ in.m.ws <= 2
      \/ /\ in.kind = "contribution"
         /\ in.anonymize = NOFLAG /\ in.second.repository = sOwnerRepo
         /\ in.first.type = sCommit /\ in.first.target = UNDEF
         /\ in.first.projectId = UNDEF /\ in.first.text = UNDEF }

InitRepeat == InitPure /\ pin \in RepeatInputs

NextRepeat ==
  \/ ApplyAnonymizeMessage \/ ApplyAnonymizeText \/ ApplyAnonymizeRepository
  \/ AmbientChange

SpecRepeat == InitRepeat /\ [][NextRepeat]_vars

(***************************************************************************)
(* Properties of the program (Spec)                                        *)
(***************************************************************************)
FormatReturned == op = "format" /\ pc = "done" /\ result.kind = "return"

RepositoryAsAtStart ==
  /\ dirExists = snap.dirExists /\ gitDir = snap.gitDir
  /\ gpgsign = snap.gpgsign /\ history = snap.history

\* C1: once a createCommit call has settled, by returning or by throwing,
\* each of the four ambient variables has the value it had when the call
\* was made, and a variable that was unset then is unset again.
C1_EnvironmentRestored ==
  pc = "commit_ret" => \A n \in AmbientNames : env[n] = pre[n]

\* A call whose commit failed, made with one ambient variable unset and
\* another set, has settled.
C1_Witness ==
  /\ pc = "commit_ret" /\ call.outcome = "error"
  /\ pre["GIT_AUTHOR_DATE"] = UNSET /\ pre["GIT_COMMITTER_DATE"] # UNSET
  /\ call.dateString # pre["GIT_COMMITTER_DATE"]

\* The instant the sort of format orders a contribution by.
SortKey(k) == DayjsValueOf(contributions[k].timestamp, tz)

\* C2: format attempts its commits in ascending order of the timestamps: no
\* contribution is attempted before one with an earlier timestamp, and a
\* run that returns its summary has attempted every contribution.
C2_AscendingAttempts ==
  op = "format" =>
    /\ \A i, j \in 1..Len(attempts) :
         i < j => SortKey(attempts[i].k) <= SortKey(attempts[j].k)
    /\ (FormatReturned /\ contributions # <<>>) =>
         /\ Len(attempts) = Len(contributions)
         /\ { attempts[i].k : i \in 1..Len(attempts) } = 1..Len(contributions)

\* A run over three contributions with three different timestamps, given
\* latest first, has returned.
C2_Witness ==
  /\ FormatReturned /\ Len(contributions) = 3
  /\ SortKey(1) > SortKey(2) /\ SortKey(1) > SortKey(3) /\ SortKey(2) # SortKey(3)
  /\ Len(attempts) = 3

FailedAttempts == { i \in 1..Len(attempts) : attempts[i].outcome # "ok" }

\* C3: when exactly one createCommit of a run fails, the run leaves N - 1
\* new commits after those that were there, has warned once, naming the
\* type and the timestamp of the contribution that failed, and returns the
\* success summary.
C3_OneFailureTolerated ==
  (FormatReturned /\ contributions # <<>> /\ Cardinality(FailedAttempts) = 1) =>
    LET failed == contributions[attempts[CHOOSE i \in FailedAttempts : TRUE].k]
    IN /\ Len(history) = Len(snap.history) + Len(contributions) - 1
       /\ SubSeq(history, 1, Len(snap.history)) = snap.history
       /\ warnings = << <<failed.type, failed.timestamp>> >>
       /\ result.value.content = "Git export completed successfully"

\* A run of three contributions whose second commit failed has returned.
C3_Witness ==
  /\ FormatReturned /\ Len(attempts) = 3
  /\ FailedAttempts = {2}
  /\ Len(history) = Len(snap.history) + 2

\* C4: format of an empty batch, the tool being available, returns the
\* 'No contributions to export' result and changes nothing on disk: no
\* directory, no repository, no commit, no attempt.
C4_EmptyBatchNoMutation ==
  (op = "format" /\ contributions = <<>>) =>
    /\ RepositoryAsAtStart
    /\ attempts = <<>> /\ env = snap.env
    /\ FormatReturned => result.value.content = "No contributions to export"

\* format of an empty batch has returned where no directory existed.
C4_Witness ==
  /\ FormatReturned /\ contributions = <<>> /\ ~snap.dirExists /\ ~dirExists

FormatThrewUnavailable ==
  /\ op = "format" /\ pc = "done" /\ result.kind = "throw"
  /\ result.error = "Git is not installed or not available in PATH"

\* C5: when the tool is unavailable format throws with nothing changed: no
\* directory created, no repository initialized, no commit attempted and
\* no ambient variable written, whatever the batch.
C5_UnavailableNoMutation ==
  FormatThrewUnavailable =>
    /\ RepositoryAsAtStart
    /\ attempts = <<>> /\ env = snap.env

\* format of a batch of two has thrown for want of the tool where no
\* directory existed.
C5_Witness ==
  /\ FormatThrewUnavailable /\ Len(contributions) = 2 /\ ~snap.dirExists

\* The behaviour so far is two format runs, one after the other, in which
\* no tool call failed.
TwoCleanRuns ==
  /\ Len(runs) = 2 /\ runs[1].op = 1 /\ runs[2].op = 2
  /\ op = "format" /\ pc = "done" /\ ops = 2 /\ faults = 0

\* C6: two format runs in succession on the same location with the same N
\* contributions, no tool call failing, leave 2N commits more than there
\* were (2N in a location that had none), and the second run reports N new
\* commits, as the first did.
C6_TwiceIsCumulative ==
  TwoCleanRuns =>
    LET n == Len(contributions)
    IN /\ Len(history) = runs[1].before + 2 * n
       /\ runs[2].summary.totalCommits = runs[1].before + 2 * n
       /\ runs[2].summary.newCommits = n
       /\ runs[1].summary.newCommits = n

\* Two runs of two contributions on a location that held nothing.
C6_Witness ==
  /\ TwoCleanRuns /\ Len(contributions) = 2 /\ runs[1].before = 0
  /\ Len(history) = 4

CoreCommits == { i \in 1..Len(history) : history[i].by = "core" }

\* The identity format is to use for an environment variable's value.
ConfiguredOr(value, fallback, used) ==
  /\ value = UNSET => used = fallback
  /\ (value # UNSET /\ value # "") => used = value

Calls(fn) == { i \in 1..Len(pout) : pout[i].fn = fn }

Segment(field, part) ==
  IF field = UNDEF \/ field = <<>> THEN <<>> ELSE <<":", " ">> \o part

\* "[type]", then each field that is there behind a ": ", in the fixed order.
ExpectedMessage(c, repo, text) ==
  <<"[">> \o c.type \o <<"]">>
    \o Segment(c.repository, repo)
    \o Segment(c.target, <<"(">> \o c.target \o <<")">>)
    \o Segment(c.projectId, <<"{">> \o c.projectId \o <<"}">>)
    \o Segment(c.text, text)

ExampleContribution ==
  [type |-> sPr, repository |-> sOwnerRepo, target |-> sMain,
   projectId |-> UNDEF, text |-> sFixBug]

RepoToken(c, m) == SubSeq(m, Len(c.type) + 5, Len(c.type) + 4 + Len(sRepo) + DefaultHashLength)

\* C9: with anonymize set the message has 'repo_' and the hash of the
\* repository for the repository, whatever the text, and anonymizeMessage
\* of the text for the text, whatever the repository; type, target and
\* project id are as given; the two contributions of a pair with the same
\* repository carry the same token. With anonymize unset or false every
\* field is as given.
C9_AnonymizedFields ==
  \A i \in Calls("buildCommitMessage") :
    LET c == pout[i].arg[1]
        d == pout[i].arg[2]
        m == pout[i].out[1]
    IN IF pout[i].arg[3] = "true"
         THEN /\ m = ExpectedMessage(c, sRepo \o createConsistentHash(c.repository),
                                     anonymizeMessage(c.text))
              /\ Truthy(c.repository) =>
                   /\ RepoToken(c, m) = anonymizeRepository(c.repository)
                   /\ c.repository = d.repository =>
                        RepoToken(c, m) = RepoToken(d, pout[i].out[2])
              /\ pout[i].out[2] =
                   ExpectedMessage(d, anonymizeRepository(d.repository),
                                   anonymizeMessage(d.text))
         ELSE /\ m = ExpectedMessage(c, c.repository, c.text)
              /\ pout[i].out[2] = ExpectedMessage(d, d.repository, d.text)

\* A pair on the same repository has been built with anonymize set: the
\* messages differ from the raw ones and carry one token.
C9_Witness ==
  \E i \in Calls("buildCommitMessage") :
    LET c == pout[i].arg[1]
        d == pout[i].arg[2]
    IN /\ pout[i].arg[3] = "true"
       /\ c.repository = sOwnerRepo /\ d.repository = sOwnerRepo
       /\ c.text = sFeatAdd /\ c.target = sMain
       /\ RepoToken(c, pout[i].out[1]) = RepoToken(d, pout[i].out[2])
       /\ SubSeq(RepoToken(c, pout[i].out[1]), 1, Len(sRepo)) = sRepo
       /\ pout[i].out[1] # ExpectedMessage(c, c.repository, c.text)

\* The input is a keyword in some letter case, an optional scope of word
\* characters and hyphens, a colon, white space or none, and a remainder.
PrefixedInput ==
  /\ pin.kind = "message" /\ ~pin.absent
  /\ KeywordPool[pin.m.kw].known
  /\ ScopePool[pin.m.scope].valid
  /\ SeparatorPool[pin.m.sep].colon

\* C10: of a message that begins with a recognized keyword in any letter
\* case, an optional parenthesized scope, a colon and optional white space,
\* anonymizeMessage returns that prefix as written followed by 'hash_' and
\* the hash of everything after the prefix.
C10_PrefixPreserved ==
  PrefixedInput =>
    \A i \in Calls("anonymizeMessage") :
      LET m == pin.m
          prefix == KeywordPool[m.kw].s \o ScopePool[m.scope].s \o <<":">>
                      \o SpacePool[m.ws]
          out == pout[i].out
      IN /\ out = prefix \o sHash \o createConsistentHash(RestPool[m.rest])
         /\ Len(out) = Len(prefix) + Len(sHash) + DefaultHashLength
         /\ \A j \in 1..DefaultHashLength :
              out[Len(prefix) + Len(sHash) + j] \in Range(HexDigits)

\* anonymizeMessage has been applied to "FEAT(a-B_1):" followed by a tab, a
\* line feed and a remainder.
C10_Witness ==
  /\ PrefixedInput /\ Calls("anonymizeMessage") # {}
  /\ KeywordPool[pin.m.kw].s = <<"F","E","A","T">>
  /\ ScopePool[pin.m.scope].s = <<"(","a","-","B","_","1",")">>
  /\ SpacePool[pin.m.ws] = <<"\t","\n">>
  /\ RestPool[pin.m.rest] # <<>>

PureFunctions == {"anonymizeMessage", "anonymizeRepository", "anonymizeText"}

\* The function of a recorded call applied again, now.
Recomputed(r) ==
  CASE r.fn = "anonymizeMessage" -> anonymizeMessage(r.arg[1])
    [] r.fn = "anonymizeRepository" -> anonymizeRepository(r.arg[1])
    [] r.fn = "anonymizeText" -> anonymizeText(r.arg[1], r.arg[2])

\* C11: two calls of anonymizeMessage, of anonymizeRepository or of
\* anonymizeText with the same arguments return the same output, whatever
\* was called before, in whatever zone and environment each call ran; and
\* calling again later gives what the recorded call gave.
C11_Deterministic ==
  \A i \in 1..Len(pout) :
    pout[i].fn \in PureFunctions =>
      /\ pout[i].out = Recomputed(pout[i])
      /\ \A j \in 1..Len(pout) :
           (pout[j].fn = pout[i].fn /\ pout[j].arg = pout[i].arg) =>
             pout[j].out = pout[i].out

\* anonymizeText was called twice with the same text and kind, the second
\* time in another zone and environment.
C11_Witness ==
  /\ Len(pout) >= 2
  /\ pout[1].fn = "anonymizeText" /\ pout[2].fn = "anonymizeText"
  /\ pout[1].arg = pout[2].arg /\ pout[1].arg[1] # UNDEF
  /\ pout[1].at # pout[2].at
  /\ pout[1].out = pout[2].out

\* s is 'hash_' followed by 8 lowercase hexadecimal digits.
IsHashToken(s) ==
  /\ Len(s) = 13
  /\ Str(SubSeq(s, 1, 5)) = "hash_"
  /\ \A j \in 6..13 : s[j] \in Range(HexDigits)

\* C12: anonymizeMessage of undefined and of the empty string return the
\* same thing, 'hash_' and the 8 hexadecimal digits of the hash of 'empty'.
C12_MissingMessage ==
  \A i \in Calls("anonymizeMessage") :
    pout[i].arg[1] \in {UNDEF, <<>>} =>
      /\ IsHashToken(pout[i].out)
      /\ pout[i].out = anonymizeMessage(UNDEF)
      /\ pout[i].out = anonymizeMessage(<<>>)
      /\ pout[i].out = sHash \o createConsistentHash(<<"e","m","p","t","y">>)

\* anonymizeMessage has been applied to the empty string.
C12_Witness ==
  \E i \in Calls("anonymizeMessage") :
    /\ pout[i].arg[1] = <<>>
    /\ pout[i].out = anonymizeMessage(UNDEF)

KindName == [commit |-> "commit", pr |-> "pr", review |-> "review"]

\* C13: anonymizeText of a missing text (undefined or empty) is
\* '{kind}_hash_' and the hash of '{kind}_empty' for each kind, commit
\* included; of a text and kind commit it is anonymizeMessage of the text;
\* of a text and kind pr or review it is '{kind}_hash_' and the hash of
\* the text.
C13_TextByKind ==
  \A i \in Calls("anonymizeText") :
    LET text == pout[i].arg[1]
        kind == pout[i].arg[2]
        out == pout[i].out
        n == Len(KindName[kind])
        marker == SubSeq(out, 1, n + 6)
        digits == SubSeq(out, n + 7, Len(out))
    IN IF text = UNDEF \/ text = <<>>
         THEN /\ Str(marker) = KindName[kind] \o "_hash_"
              /\ digits = createConsistentHash(SubSeq(out, 1, n + 1) \o sEmpty)
              /\ Len(digits) = DefaultHashLength
       ELSE IF kind = "commit"
         THEN out = anonymizeMessage(text)
       ELSE /\ Str(marker) = KindName[kind] \o "_hash_"
            /\ digits = createConsistentHash(text)

\* anonymizeText has been applied to the empty string and kind commit.
C13_Witness ==
  \E i \in Calls("anonymizeText") :
    /\ pout[i].arg = << <<>>, "commit" >>
    /\ Str(SubSeq(pout[i].out, 1, 12)) = "commit_hash_"
    /\ pout[i].out # anonymizeMessage(<<>>)

(***************************************************************************)
(* Further properties of the program (Spec)                                *)
(***************************************************************************)
\* The history-log query of the operation in progress failed: the
\* repository could not serve it, or the tool call was made to fail.
LogFailed == ~LogWorks \/ faults > snap.faults

FormatErrors ==
  { "Git is not installed or not available in PATH", "git init failed",
    "git config failed" }

\* C14: getCommitCount never throws: it returns 0 when the log query fails,
\* on an empty or absent history as for any other reason, and the number of
\* commits otherwise; a format run never fails on account of a count.
C14_CountAbsorbsFailure ==
  /\ (op = "count" /\ pc = "done") =>
       result = Return(IF LogFailed THEN 0 ELSE Len(history))
  /\ (op = "format" /\ pc = "done" /\ result.kind = "throw") =>
       result.error \in FormatErrors

\* A direct count of a repository that has commits failed in the tool and
\* returned 0.
C14_Witness ==
  /\ op = "count" /\ pc = "done"
  /\ gitDir /\ history # <<>> /\ faults > snap.faults
  /\ result = Return(0)

\* C15: in a format run each contribution gets one createCommit attempt, in
\* the sorted order, whether or not earlier attempts failed: the attempts
\* so far are the first of the sorted batch, none twice, and a run whose
\* loop has begun ends with the whole batch attempted and the summary
\* returned.
C15_OneAttemptEach ==
  op = "format" =>
    /\ Len(attempts) <= Len(sorted)
    /\ \A i \in 1..Len(attempts) : attempts[i].k = sorted[i]
    /\ \A i, j \in 1..Len(attempts) : i # j => attempts[i].k # attempts[j].k
    /\ (pc = "done" /\ attempts # <<>>) =>
         /\ result.kind = "return"
         /\ Len(attempts) = Len(contributions)
         /\ \A i \in 1..Len(attempts) : attempts[i].outcome \in {"ok", "error"}
    /\ pc = "log_final" => Len(attempts) = Len(contributions)

\* A run of three whose first commit failed has attempted and made the
\* other two.
C15_Witness ==
  /\ FormatReturned /\ Len(contributions) = 3 /\ Len(attempts) = 3
  /\ attempts[1].outcome = "error"
  /\ attempts[2].outcome = "ok" /\ attempts[3].outcome = "ok"

\* C16: contributions whose timestamps are the same instant are attempted
\* in the order in which the batch gave them.
C16_StableOrder ==
  op = "format" =>
    \A i, j \in 1..Len(attempts) :
      (i < j /\ SortKey(attempts[i].k) = SortKey(attempts[j].k)) =>
        attempts[i].k < attempts[j].k

\* A run has attempted two different contributions with the same timestamp,
\* given after a later one, and a third.
C16_Witness ==
  /\ FormatReturned /\ Len(attempts) = 3
  /\ contributions[2].timestamp = contributions[3].timestamp
  /\ contributions[2] # contributions[3]
  /\ SortKey(1) > SortKey(2)
  /\ attempts[1].k = 2 /\ attempts[2].k = 3 /\ attempts[3].k = 1

\* initializeRepository, called directly, has returned.
InitReturned == op = "init" /\ pc = "done" /\ result.kind = "return"

\* C17: initializeRepository where .git is absent at the target path runs
\* the tool's init, sets commit.gpgsign to false and returns true; where it
\* is present it changes nothing and returns false; a repository that is
\* present stays present, so every later call returns false, and no call
\* touches the commit history.
C17_InitializeOnce ==
  /\ snap.gitDir => gitDir
  /\ op = "init" => history = snap.history
  /\ (op = "init" /\ snap.gitDir) => (RepositoryAsAtStart /\ env = snap.env)
  /\ InitReturned =>
       IF snap.gitDir
         THEN result.value = FALSE
         ELSE /\ result.value = TRUE
              /\ dirExists /\ gitDir /\ gpgsign = "false"
  /\ (op = "format" /\ pc \in {"init_ret", "log_initial", "commit_tool",
                                "commit_finally", "commit_ret", "log_final"}) =>
       isNew = ~snap.gitDir

\* A repository this program created and committed to was initialized
\* again: the call returned false and the commit is still there.
C17_Witness ==
  /\ InitReturned /\ result.value = FALSE
  /\ snap.gpgsign = "false"
  /\ history # <<>> /\ history[1].by = "core"

\* One step of the program: what it does to the commit history.
HistoryStep ==
  /\ Len(history') >= Len(history)
  /\ Len(history') <= Len(history) + 1
  /\ SubSeq(history', 1, Len(history)) = history
  /\ history' # history => (pc = "commit_tool" /\ call'.outcome = "ok")
  /\ (pc = "commit_tool" /\ call'.outcome = "ok") =>
       Len(history') = Len(history) + 1
  /\ (pc = "commit_tool" /\ call'.outcome = "error") => history' = history
  /\ op' \in {"init", "count"} => history' = history

\* C19: in any sequence of initializeRepository, createCommit,
\* getCommitCount and format the commit history only grows: every step
\* keeps the commits there are, in order and unchanged; a createCommit that
\* succeeds appends one commit; a createCommit that fails, an
\* initializeRepository and a getCommitCount leave the history as it is.
C19_HistoryOnlyGrows == [][HistoryStep]_vars

\* A createCommit failed after this program had committed: the commit is
\* the last of the history still.
C19_Witness ==
  /\ op = "commit" /\ pc = "done" /\ result.kind = "throw"
  /\ call.outcome = "error"
  /\ history # <<>> /\ history = snap.history
  /\ history[Len(history)].by = "core"

\* A createCommit is between writing the variables and restoring them.
Holding == pc \in {"commit_tool", "commit_finally"}

\* C20: in a format run commits are made one at a time: a createCommit
\* finds the variables as they were before the run, the one before it
\* having restored them; the call that holds the variables is the attempt
\* for the contribution the loop is at, and the only one unsettled; and at
\* every other step of format (the probe, initialization, the counts, the
\* sort, building a message, warning) the variables are as they were.
C20_OneCommitAtATime ==
  op = "format" =>
    /\ ~Holding => env = snap.env
    /\ (Holding \/ pc = "commit_ret") =>
         /\ pre = snap.env
         /\ call.active /\ call.k = sorted[idx]
         /\ Len(attempts) = idx /\ attempts[idx].k = call.k
    /\ Holding => call.originalEnv = SaveEnvironment(snap.env)
    /\ \A i \in 1..Len(attempts) :
         attempts[i].outcome = "pending" => (i = Len(attempts) /\ pc = "commit_tool")

\* The second commit of a run holds the variables, the first having
\* restored the values that were set before the run.
C20_Witness ==
  /\ op = "format" /\ pc = "commit_tool" /\ idx = 2
  /\ attempts[1].outcome = "ok"
  /\ snap.env["GIT_COMMITTER_EMAIL"] = "carol@example.com"
  /\ env["GIT_COMMITTER_EMAIL"] = defaultAuthorEmail
  /\ pre = snap.env

FormatThrew == op = "format" /\ pc = "done" /\ result.kind = "throw"

\* C21: a failure of initializeRepository ends the format call: the error
\* reaches the caller, no createCommit was attempted, no summary is
\* returned and the ambient variables are as they were. Only the missing
\* tool and a failed initialization end format so: a run that has begun its
\* commits, in a repository that is therefore initialized, returns its
\* summary whatever fails later.
C21_InitFailureAborts ==
  /\ FormatThrew =>
       /\ result.error \in FormatErrors
       /\ attempts = <<>> /\ commitCount = 0
       /\ env = snap.env /\ history = snap.history
       /\ \A i \in 1..Len(runs) : runs[i].op # ops
       /\ result.error \in {"git init failed", "git config failed"} =>
            (~snap.gitDir /\ contributions # <<>> /\ faults > snap.faults)
  /\ (op = "format" /\ attempts # <<>>) =>
       /\ gitDir
       /\ pc = "done" => (result.kind = "return" /\ runs # <<>>
                           /\ runs[Len(runs)].op = ops)

\* format has thrown because git init failed, with a batch to export.
C21_Witness ==
  /\ FormatThrew /\ result.error = "git init failed"
  /\ Len(contributions) = 2 /\ ~gitDir /\ attempts = <<>>

\* C23: format does not change its input: no step changes the caller's
\* array of contributions, its elements, their order or any of their
\* fields; what is sorted is a copy.
C23_InputUntouched == [][contributions' = contributions]_vars

\* A format run on a batch given latest first has returned: the copy was
\* sorted.
C23_Witness ==
  /\ FormatReturned /\ Len(contributions) = 3
  /\ sorted = <<3, 2, 1>>
  /\ SortKey(1) > SortKey(2) /\ SortKey(2) > SortKey(3)

\* C24: in a format run, no other actor touching the repository, the new
\* commits the summary reports are the createCommit calls of the run that
\* succeeded, a number from 0 to the size of the batch, whatever the
\* repository held at the start and whichever tool calls failed, the count
\* queries included.
C24_NewIsSucceeded ==
  (FormatReturned /\ contributions # <<>>) =>
    /\ result.value.newCommits = commitCount
    /\ result.value.newCommits >= 0
    /\ result.value.newCommits <= Len(contributions)

\* The commits of the history that the format run in progress has made.
CommitsOfRun ==
  { i \in CoreCommits : history[i].request.op = ops /\ history[i].request.k > 0 }

\* C25: the instant a contribution is sorted by is the instant its commit
\* is dated with, so that the commits of one format run carry dates that
\* never decrease in the order in which they were created.
C25_DatesFollowOrder ==
  FormatReturned =>
    /\ \A i, j \in CommitsOfRun :
         i < j => history[i].request.date <= history[j].request.date
    /\ \A i \in 1..Len(attempts) :
         SortKey(attempts[i].k) = NewDate(contributions[attempts[i].k].timestamp, tz)

\* The repository at the location was made by git.init() of this program:
\* the one found there at the start always holds a commit of someone else.
CoreCreated ==
  gitDir /\ (history = <<>> \/ history[1].by = "core")

\* C26: a repository that initializeRepository has created has
\* commit.gpgsign set to false whenever no initializeRepository call is
\* between its git.init() and its addConfig(), whether the creating call
\* returned or threw, and so also while any createCommit runs against it.
C26_SigningDisabled ==
  (CoreCreated /\ pc # "git_config") => gpgsign = "false"

(***************************************************************************)
(* Properties of the program beside another actor (SpecShared)             *)
(***************************************************************************)
\* The summary a format run has just returned, as recorded at its recount.
LastRun == runs[Len(runs)]

\* C18: the new-commit figure of the summary is the count queried after the
\* loop less the baseline taken after initialization, 0 for a repository
\* just created; the total and the new figure therefore include the commits
\* another actor added during the run, and the new figure can exceed the
\* number of commits the run made.
C18_NewIsRecountLessBaseline ==
  (FormatReturned /\ contributions # <<>>) =>
    /\ result.value.newCommits = result.value.totalCommits - initialCount
    /\ isNew => initialCount = 0
    /\ faults = snap.faults =>
         /\ result.value.totalCommits = LastRun.after
         /\ result.value.newCommits = LastRun.after - initialCount
         /\ result.value.newCommits >= commitCount
         /\ result.value.newCommits <= commitCount + (extCount - snap.extCount)
         /\ (~isNew /\ extCount = snap.extCount) =>
              initialCount = Len(snap.history)

\* A run on an existing repository returned a new-commit figure one above
\* the number of commits it made: another actor committed meanwhile.
C18_Witness ==
  /\ FormatReturned /\ Len(contributions) = 2 /\ ~isNew
  /\ faults = snap.faults /\ commitCount = 2
  /\ extCount = snap.extCount + 1
  /\ result.value.newCommits = 3
  /\ result.value.totalCommits = Len(snap.history) + 3

(***************************************************************************)
(* Further properties of the pure functions (SpecPure)                     *)
(***************************************************************************)
\* The input is a message that is not empty and does not begin with a
\* keyword, an optional scope and a colon: its pieces are not of that
\* shape, and it is not a bare remainder that is of that shape itself.
UnprefixedInput ==
  /\ pin.kind = "message" /\ ~pin.absent
  /\ Assemble(pin.m) # <<>>
  /\ ~PrefixedInput
  /\ KeywordPool[pin.m.kw].s = <<>> =>
       \/ ScopePool[pin.m.scope].s # <<>>
       \/ SeparatorPool[pin.m.sep].s # <<>>
       \/ SpacePool[pin.m.ws] # <<>>
       \/ Str(RestPool[pin.m.rest]) # "fix: y"

\* C22: of a message that is not empty and does not begin with a recognized
\* keyword, an optional scope and a colon, anonymizeMessage returns 'hash_'
\* and the 8 hexadecimal digits of the hash of the whole message, and
\* nothing of the message itself.
C22_UnprefixedHashedWhole ==
  UnprefixedInput =>
    \A i \in Calls("anonymizeMessage") :
      /\ IsHashToken(pout[i].out)
      /\ pout[i].out = <<"h","a","s","h","_">> \o createConsistentHash(Assemble(pin.m))

\* anonymizeMessage has been applied to 'feat!: add x'.
C22_Witness ==
  /\ UnprefixedInput /\ Calls("anonymizeMessage") # {}
  /\ Str(Assemble(pin.m)) = "feat!: add x"


(***************************************************************************)
(* Properties of createCommit called side by side (SpecOverlap)            *)
(***************************************************************************)
\* Some call started while another was in flight.
Overlapped == \E c \in DOMAIN calls : calls[c].beside # {}

\* C27: when createCommit calls have overlapped and all of them have
\* settled, the four ambient variables hold the values they had before the
\* first call started, and every commit made carries the date and the
\* committer identity of its own request.
C27_OverlapKeepsScope ==
  (Overlapped /\ InFlight = {}) =>
    /\ SaveEnvironment(env) = SaveEnvironment(pre)
    /\ \A i \in 1..Len(history) :
         history[i].by = "core" =>
           /\ history[i].authorDate = ToISOString(history[i].request.date)
           /\ history[i].committerDate = ToISOString(history[i].request.date)
           /\ history[i].committer = Ident(history[i].request.authorName,
                                           history[i].request.authorEmail)

=============================================================================
